---- MODULE Spec2Model ----
(***************************************************************************)
(* Model of hydra/_internal/grammar/grammar_functions.py: the grammar      *)
(* functions choice, range, interval, tag, shuffle, sort and cast_*.       *)
(*                                                                         *)
(* Python objects with identity (sweeps, lists, dicts) live in `heap`, a   *)
(* sequence indexed by object id; a value handed to or returned by a       *)
(* function is an element: a scalar or a reference to a heap object.       *)
(* `call` records the last call: its arguments, the heap before it, and    *)
(* its outcome.                                                            *)
(*                                                                         *)
(* Numbers are fixed-point with one binary fractional digit: field n of an *)
(* int or float counts halves, so int 3 is n = 6 and float 1.5 is n = 3.   *)
(* Strings are sequences of one-character strings.                        *)
(***************************************************************************)
EXTENDS Integers, Sequences, FiniteSets, TLC

VARIABLES heap, call

vars == <<heap, call>>

(***************************************************************************)
(* Elements                                                                *)
(***************************************************************************)
None == [t |-> "none", n |-> 0, s |-> <<>>]

IntV(k) == [t |-> "int", n |-> 2 * k, s |-> <<>>]

FloatH(h) == [t |-> "float", n |-> h, s |-> <<>>]

BoolV(b) == [t |-> "bool", n |-> IF b THEN 1 ELSE 0, s |-> <<>>]

StrV(cs) == [t |-> "str", n |-> 0, s |-> cs]

QuotedString(cs) == [t |-> "quoted", n |-> 0, s |-> cs]

Ref(i) == [t |-> "ref", n |-> i, s |-> <<>>]

IsRef(v) == v.t = "ref"

IsPrimitive(v) == v.t \in {"int", "float", "bool", "str"}

IsNumber(v) == v.t \in {"int", "float"}

\* Outcome of an operation that returns a value or raises.
Ok(v) == [status |-> "ok", val |-> v]

Raise(e) == [status |-> e, val |-> None]

(***************************************************************************)
(* Python's numeric and string conversions on scalars                      *)
(***************************************************************************)
Digits == <<"0", "1", "2", "3", "4", "5", "6", "7", "8", "9">>

IsDigit(c) == \E i \in 1..10 : Digits[i] = c

DigitVal(c) == (CHOOSE i \in 1..10 : Digits[i] = c) - 1

AllDigits(cs) == Len(cs) > 0 /\ \A i \in 1..Len(cs) : IsDigit(cs[i])

RECURSIVE DigitsVal(_)
DigitsVal(cs) ==
    IF cs = <<>> THEN 0
    ELSE 10 * DigitsVal(SubSeq(cs, 1, Len(cs) - 1)) + DigitVal(cs[Len(cs)])

RECURSIVE NatStr(_)
NatStr(k) ==
    IF k < 10 THEN <<Digits[k + 1]>>
    ELSE NatStr(k \div 10) \o <<Digits[(k % 10) + 1]>>

HasSign(cs) == Len(cs) > 0 /\ cs[1] \in {"-", "+"}

Unsigned(cs) == IF HasSign(cs) THEN Tail(cs) ELSE cs

Signed(cs, k) == IF HasSign(cs) /\ cs[1] = "-" THEN 0 - k ELSE k

\* Position of the first "." of cs, 0 when there is none.
DotPos(cs) ==
    IF \E i \in 1..Len(cs) : cs[i] = "."
    THEN CHOOSE i \in 1..Len(cs) : cs[i] = "." /\ \A j \in 1..(i - 1) : cs[j] /= "."
    ELSE 0

\* int(str): an optionally signed run of decimal digits, else ValueError.
ParseInt(cs) ==
    IF AllDigits(Unsigned(cs))
    THEN Ok(IntV(Signed(cs, DigitsVal(Unsigned(cs)))))
    ELSE Raise("ValueError")

\* Halves denoted by a fractional digit string (inputs are multiples of 1/2).
FracHalves(fs) == IF fs[1] = "5" THEN 1 ELSE 0

\* float(str): [sign] digits [. digits], else ValueError.
ParseFloat(cs) ==
    LET u == Unsigned(cs)
        d == DotPos(u)
        ip == IF d = 0 THEN u ELSE SubSeq(u, 1, d - 1)
        fp == IF d = 0 THEN <<"0">> ELSE SubSeq(u, d + 1, Len(u))
    IN  IF AllDigits(ip) /\ AllDigits(fp)
        THEN Ok(FloatH(Signed(cs, 2 * DigitsVal(ip) + FracHalves(fp))))
        ELSE Raise("ValueError")

\* Truncation toward zero of h halves, in whole units.
Trunc(h) == IF h >= 0 THEN h \div 2 ELSE 0 - ((0 - h) \div 2)

\* str(int)
IntStr(h) ==
    IF h < 0 THEN <<"-">> \o NatStr((0 - h) \div 2) ELSE NatStr(h \div 2)

\* str(float): repr with one fractional digit
FloatStr(h) ==
    LET a == IF h < 0 THEN 0 - h ELSE h
        body == NatStr(a \div 2) \o <<".">> \o (IF a % 2 = 1 THEN <<"5">> ELSE <<"0">>)
    IN  IF h < 0 THEN <<"-">> \o body ELSE body

Upper == <<"A", "E", "F", "L", "R", "S", "T", "U">>

LowerOf == <<"a", "e", "f", "l", "r", "s", "t", "u">>

LowerChar(c) ==
    IF \E i \in 1..Len(Upper) : Upper[i] = c
    THEN LowerOf[CHOOSE i \in 1..Len(Upper) : Upper[i] = c]
    ELSE c

\* str.lower()
Lower(cs) == [i \in 1..Len(cs) |-> LowerChar(cs[i])]

\* int(value) for a primitive
PyInt(v) ==
    CASE v.t = "int" -> Ok(v)
      [] v.t = "bool" -> Ok(IntV(v.n))
      [] v.t = "float" -> Ok(IntV(Trunc(v.n)))
      [] v.t = "str" -> ParseInt(v.s)

\* float(value) for a primitive
PyFloat(v) ==
    CASE v.t = "int" -> Ok(FloatH(v.n))
      [] v.t = "bool" -> Ok(FloatH(2 * v.n))
      [] v.t = "float" -> Ok(v)
      [] v.t = "str" -> ParseFloat(v.s)

\* str(value) for a primitive
PyStr(v) ==
    CASE v.t = "int" -> StrV(IntStr(v.n))
      [] v.t = "bool" -> StrV(IF v.n = 1 THEN <<"T", "r", "u", "e">>
                                         ELSE <<"F", "a", "l", "s", "e">>)
      [] v.t = "float" -> StrV(FloatStr(v.n))
      [] v.t = "str" -> v

\* bool(value) for a non-string primitive
PyBool(v) == BoolV(v.n /= 0)

\* The tail of cast_int / cast_float / cast_str / cast_bool: the scalar case.
CastScalar(fn, v) ==
    IF ~IsPrimitive(v) /\ fn /= "bool" THEN Raise("AssertionError")
    ELSE CASE fn = "int" -> PyInt(v)
           [] fn = "float" -> PyFloat(v)
           [] fn = "str" ->
                IF v.t = "bool" THEN Ok(StrV(Lower(PyStr(v).s))) ELSE Ok(PyStr(v))
           [] fn = "bool" ->
                IF v.t = "str"
                THEN IF Lower(v.s) = <<"f", "a", "l", "s", "e">> THEN Ok(BoolV(FALSE))
                     ELSE IF Lower(v.s) = <<"t", "r", "u", "e">> THEN Ok(BoolV(TRUE))
                     ELSE Raise("ValueError")
                ELSE Ok(PyBool(v))

(***************************************************************************)
(* Heap objects: the sweep variants, lists and dicts                       *)
(***************************************************************************)
Blank ==
    [kind |-> "none", list |-> <<>>, keys |-> <<>>, simple_form |-> FALSE,
     tags |-> {}, shuffle |-> FALSE, start |-> None, stop |-> None,
     step |-> None, end |-> None]

\* ChoiceSweep(list=..., simple_form=...): tags and shuffle take their defaults.
ChoiceSweep(list, simple_form) ==
    [Blank EXCEPT !.kind = "choice", !.list = list, !.simple_form = simple_form]

\* RangeSweep(start=..., stop=..., step=...)
RangeSweep(start, stop, step) ==
    [Blank EXCEPT !.kind = "range", !.start = start, !.stop = stop, !.step = step]

\* IntervalSweep(start=..., end=...)
IntervalSweep(start, end) ==
    [Blank EXCEPT !.kind = "interval", !.start = start, !.end = end]

ListObj(list) == [Blank EXCEPT !.kind = "list", !.list = list]

DictObj(keys, values) == [Blank EXCEPT !.kind = "dict", !.keys = keys, !.list = values]

KindOf(v, h) == IF IsRef(v) THEN h[v.n].kind ELSE v.t

IsSweep(v, h) == KindOf(v, h) \in {"choice", "range", "interval"}

\* A result of a function: the heap after it, its status, and the value returned.
Result(h, status, val) == [heap |-> h, status |-> status, val |-> val]

\* A newly constructed object is appended to the heap and returned by reference.
New(h, o) == Result(Append(h, o), "ok", Ref(Len(h) + 1))

\* is_type_matching(value, ElementType) / is_type_matching(value, ParsedElementType)
is_type_matching(v, h, union) ==
    \/ IsPrimitive(v)
    \/ KindOf(v, h) \in {"list", "dict"}
    \/ union = "ParsedElementType" /\ v.t \in {"quoted", "none"}

(***************************************************************************)
(* Casting engine                                                          *)
(***************************************************************************)
\* A faulty variant of CastOkRange: a range may be cast to anything but bool.
CastOkRange_Mut(fn) == fn /= "bool"

CastOkRange(fn) == fn \in {"float", "int"}

\* cast_choice's result: only simple_form and the cast list are passed on.
CastChoiceResult(o, choices) == ChoiceSweep(choices, o.simple_form)

\* cast_range's result, from the three cast fields.
CastRangeResult(o, start, stop, step) == RangeSweep(start, stop, step)

RECURSIVE Cast(_, _, _), CastSeq(_, _, _, _)

\* function(item) over a sequence, left to right; `check` is cast_choice's
\* assertion on every cast item.
CastSeq(fn, elems, h, check) ==
    IF elems = <<>> THEN [heap |-> h, status |-> "ok", vals |-> <<>>]
    ELSE LET r == Cast(fn, Head(elems), h)
         IN  IF r.status /= "ok"
             THEN [heap |-> h, status |-> r.status, vals |-> <<>>]
             ELSE IF check /\ ~is_type_matching(r.val, r.heap, "ElementType")
             THEN [heap |-> h, status |-> "AssertionError", vals |-> <<>>]
             ELSE LET rest == CastSeq(fn, Tail(elems), r.heap, check)
                  IN  IF rest.status /= "ok" THEN rest
                      ELSE [heap |-> rest.heap, status |-> "ok",
                            vals |-> <<r.val>> \o rest.vals]

\* The dispatch shared by cast_int, cast_float, cast_str and cast_bool on one
\* (already normalised) value.
Cast(fn, v, h) ==
    IF v.t = "quoted" THEN Cast(fn, StrV(v.s), h)
    ELSE IF IsRef(v) THEN
        LET o == h[v.n]
        IN  CASE o.kind = "dict" ->
                   LET r == CastSeq(fn, o.list, h, FALSE)
                   IN  IF r.status /= "ok" THEN Result(h, r.status, None)
                       ELSE New(r.heap, DictObj(o.keys, r.vals))
              [] o.kind = "list" ->
                   LET r == CastSeq(fn, o.list, h, FALSE)
                   IN  IF r.status /= "ok" THEN Result(h, r.status, None)
                       ELSE New(r.heap, ListObj(r.vals))
              [] o.kind = "choice" ->
                   LET r == CastSeq(fn, o.list, h, TRUE)
                   IN  IF r.status /= "ok" THEN Result(h, r.status, None)
                       ELSE New(r.heap, CastChoiceResult(o, r.vals))
              [] o.kind = "range" ->
                   IF ~CastOkRange(fn) THEN Result(h, "HydraException", None)
                   ELSE LET r == CastSeq(fn, <<o.start, o.stop, o.step>>, h, FALSE)
                        IN  IF r.status /= "ok" THEN Result(h, r.status, None)
                            ELSE New(r.heap, CastRangeResult(o, r.vals[1], r.vals[2], r.vals[3]))
              [] o.kind = "interval" -> Result(h, "ValueError", None)
    ELSE LET r == CastScalar(fn, v)
         IN  Result(h, r.status, r.val)

\* _list_to_simple_choice(*args)
ListToSimpleChoice(args, h) ==
    IF \E i \in 1..Len(args) : ~is_type_matching(args[i], h, "ParsedElementType")
    THEN Result(h, "AssertionError", None)
    ELSE New(h, ChoiceSweep(args, TRUE))

\* A faulty variant of NormalizeCastValue: value= wins over positional values, with no conflict check.
NormalizeCastValue_Mut(args, value, h) ==
    IF value /= None THEN Result(h, "ok", value)
    ELSE IF Len(args) = 0 THEN Result(h, "TypeError: neither", None)
    ELSE IF Len(args) = 1 THEN Result(h, "ok", args[1])
    ELSE ListToSimpleChoice(args, h)

\* _normalize_cast_value(*args, value=value)
NormalizeCastValue(args, value, h) ==
    IF Len(args) > 0 /\ value /= None THEN Result(h, "TypeError: both", None)
    ELSE IF value /= None THEN Result(h, "ok", value)
    ELSE IF Len(args) = 0 THEN Result(h, "TypeError: neither", None)
    ELSE IF Len(args) = 1 THEN Result(h, "ok", args[1])
    ELSE ListToSimpleChoice(args, h)

ShiftRef(e, k) == IF IsRef(e) /\ e.n > k THEN Ref(e.n - 1) ELSE e

\* The heap without object k, which nothing refers to any more.
ForgetObj(h, k) ==
    [i \in 1..(Len(h) - 1) |->
        LET o == h[IF i < k THEN i ELSE i + 1]
        IN  [o EXCEPT !.list = [j \in 1..Len(o.list) |-> ShiftRef(o.list[j], k)]]]

\* cast_int / cast_float / cast_str / cast_bool as called from outside. The
\* simple choice the normalisation may build is unreachable once the cast
\* returns, and is not kept.
CastCall(fn, args, value, h) ==
    LET nv == NormalizeCastValue(args, value, h)
    IN  IF nv.status /= "ok" THEN Result(h, nv.status, None)
        ELSE LET r == Cast(fn, nv.val, nv.heap)
             IN  IF r.status /= "ok" THEN Result(h, r.status, None)
                 ELSE IF Len(nv.heap) > Len(h)
                 THEN Result(ForgetObj(r.heap, Len(h) + 1), "ok", ShiftRef(r.val, Len(h) + 1))
                 ELSE r

(***************************************************************************)
(* Sweep constructors                                                      *)
(***************************************************************************)
IsChoiceSweep(v, h) == KindOf(v, h) = "choice"

\* A faulty variant of choice: only a ChoiceSweep that is not simple-form is rejected.
choice_Mut(args, h) ==
    IF Len(args) = 1 /\ IsChoiceSweep(args[1], h) /\ h[args[1].n].simple_form
    THEN Result([h EXCEPT ![args[1].n].simple_form = FALSE], "ok", args[1])
    ELSE IF \E i \in 1..Len(args) : IsChoiceSweep(args[i], h) /\ ~h[args[i].n].simple_form
    THEN Result(h, "HydraException", None)
    ELSE New(h, ChoiceSweep(args, FALSE))

\* choice(*args)
choice(args, h) ==
    IF Len(args) = 1 /\ IsChoiceSweep(args[1], h) /\ h[args[1].n].simple_form
    THEN Result([h EXCEPT ![args[1].n].simple_form = FALSE], "ok", args[1])
    ELSE IF \E i \in 1..Len(args) : IsChoiceSweep(args[i], h)
    THEN Result(h, "HydraException", None)
    ELSE New(h, ChoiceSweep(args, FALSE))

\* range(start, stop, step=1); an omitted step is passed here as None.
range(start, stop, step) ==
    RangeSweep(start, stop, IF step = None THEN IntV(1) ELSE step)

\* interval(start, end)
interval(start, end) == IntervalSweep(start, end)

\* The set built by tag()'s loop over args[0:-1].
TagSet(tagArgs) == {tagArgs[i].s : i \in 1..Len(tagArgs)}

\* tag(*args) once the sweep keyword has been folded into the positionals.
TagPositional(args, h) ==
    LET last == args[Len(args)]
        front == SubSeq(args, 1, Len(args) - 1)
    IN  IF IsSweep(last, h)
        THEN IF \E i \in 1..Len(front) : front[i].t /= "str"
             THEN Result(h, "ValueError", None)
             ELSE Result([h EXCEPT ![last.n].tags = TagSet(front)], "ok", last)
        ELSE Result(h, "ValueError", None)

\* tag(*args, sweep=None)
tag(args, sweep, h) ==
    IF Len(args) < 1 THEN Result(h, "ValueError", None)
    ELSE IF sweep /= None THEN TagPositional(Append(args, sweep), h)
    ELSE TagPositional(args, h)

(***************************************************************************)
(* Ordering transforms                                                     *)
(***************************************************************************)
\* copy(arg) followed by sweep.shuffle = True
ShuffledCopy(o) == [o EXCEPT !.shuffle = TRUE]

\* lst = copy(arg); random.shuffle(lst): perm is the permutation the RNG draws.
ShuffledList(list, perm) == [i \in 1..Len(list) |-> list[perm[i]]]

\* A faulty variant of ShufflePositional: the list is shuffled in place, without a copy.
ShufflePositional_Mut(args, h, perm) ==
    IF Len(args) = 1
    THEN LET arg == args[1]
         IN  IF KindOf(arg, h) \in {"choice", "range"}
             THEN New(h, ShuffledCopy(h[arg.n]))
             ELSE IF KindOf(arg, h) = "list"
             THEN Result([h EXCEPT ![arg.n].list = ShuffledList(h[arg.n].list, perm)], "ok", arg)
             ELSE New(h, ListObj(<<arg>>))
    ELSE LET r == ListToSimpleChoice(args, h)
         IN  IF r.status /= "ok" THEN r
             ELSE Result([r.heap EXCEPT ![r.val.n].shuffle = TRUE], "ok", r.val)

\* shuffle(*args) with neither keyword given.
ShufflePositional(args, h, perm) ==
    IF Len(args) = 1
    THEN LET arg == args[1]
         IN  IF KindOf(arg, h) \in {"choice", "range"}
             THEN New(h, ShuffledCopy(h[arg.n]))
             ELSE IF KindOf(arg, h) = "list"
             THEN New(h, ListObj(ShuffledList(h[arg.n].list, perm)))
             ELSE New(h, ListObj(<<arg>>))
    ELSE LET r == ListToSimpleChoice(args, h)
         IN  IF r.status /= "ok" THEN r
             ELSE Result([r.heap EXCEPT ![r.val.n].shuffle = TRUE], "ok", r.val)

\* shuffle(*args, sweep=None, list=None)
shuffle(args, sweep, list, h, perm) ==
    IF list /= None THEN ShufflePositional(<<list>>, h, perm)
    ELSE IF sweep /= None THEN ShufflePositional(<<sweep>>, h, perm)
    ELSE ShufflePositional(args, h, perm)

\* Characters in code-point order, for str < str.
CharOrder ==
    <<"+", "-", ".", "0", "1", "2", "3", "4", "5", "6", "7", "8", "9",
      "A", "E", "F", "L", "R", "S", "T", "U",
      "a", "b", "c", "e", "f", "l", "r", "s", "t", "u", "x">>

Ord(c) == CHOOSE i \in 1..Len(CharOrder) : CharOrder[i] = c

RECURSIVE StrLess(_, _)
StrLess(a, b) ==
    IF b = <<>> THEN FALSE
    ELSE IF a = <<>> THEN TRUE
    ELSE IF Head(a) /= Head(b) THEN Ord(Head(a)) < Ord(Head(b))
    ELSE StrLess(Tail(a), Tail(b))

IsNumeric(v) == v.t \in {"int", "float", "bool"}

\* Numeric value in halves; True is 1 and False is 0.
NumKey(v) == IF v.t = "bool" THEN 2 * v.n ELSE v.n

\* a < b for two numbers or two strings
PyLess(a, b) == IF a.t = "str" THEN StrLess(a.s, b.s) ELSE NumKey(a) < NumKey(b)

\* Whether sorted() can order the elements: fewer than two, all numbers, or all strings.
Orderable(elems) ==
    \/ Len(elems) < 2
    \/ \A i \in 1..Len(elems) : IsNumeric(elems[i])
    \/ \A i \in 1..Len(elems) : elems[i].t = "str"

\* x goes strictly before y in the requested order
Before(x, y, reverse) == IF reverse THEN PyLess(y, x) ELSE PyLess(x, y)

\* Stable insertion of x, which came after every element of acc in the input.
InsertSorted(acc, x, reverse) ==
    LET pos == IF \E i \in 1..Len(acc) : Before(x, acc[i], reverse)
               THEN CHOOSE i \in 1..Len(acc) :
                        /\ Before(x, acc[i], reverse)
                        /\ \A j \in 1..(i - 1) : ~Before(x, acc[j], reverse)
               ELSE Len(acc) + 1
    IN  SubSeq(acc, 1, pos - 1) \o <<x>> \o SubSeq(acc, pos, Len(acc))

RECURSIVE SortedFrom(_, _, _)
SortedFrom(acc, rest, reverse) ==
    IF rest = <<>> THEN acc
    ELSE SortedFrom(InsertSorted(acc, Head(rest), reverse), Tail(rest), reverse)

\* sorted(list, reverse=reverse) on orderable elements
sorted(list, reverse) ==
    IF Len(list) < 2 THEN list ELSE SortedFrom(<<>>, list, reverse)

NumType(a, b) == IF a.t = "float" \/ b.t = "float" THEN "float" ELSE "int"

NumAdd(a, b) == [t |-> NumType(a, b), n |-> a.n + b.n, s |-> <<>>]

NumSub(a, b) == [t |-> NumType(a, b), n |-> a.n - b.n, s |-> <<>>]

NumAbs(a) == [a EXCEPT !.n = IF a.n < 0 THEN 0 - a.n ELSE a.n]

NumNeg(a) == [a EXCEPT !.n = 0 - a.n]

\* A faulty variant of SortRange: the endpoints are shifted by step, not abs(step).
SortRange_Mut(o, reverse) ==
    IF ~reverse
    THEN IF o.start.n > o.stop.n
         THEN [o EXCEPT !.start = NumAdd(o.stop, o.step),
                        !.stop = NumAdd(o.start, o.step),
                        !.step = NumNeg(o.step)]
         ELSE o
    ELSE IF o.start.n < o.stop.n
         THEN [o EXCEPT !.start = NumSub(o.stop, o.step),
                        !.stop = NumSub(o.start, o.step),
                        !.step = NumNeg(o.step)]
         ELSE o

\* The RangeSweep branch of _sort_sweep, on the copy.
SortRange(o, reverse) ==
    IF ~reverse
    THEN IF o.start.n > o.stop.n
         THEN [o EXCEPT !.start = NumAdd(o.stop, NumAbs(o.step)),
                        !.stop = NumAdd(o.start, NumAbs(o.step)),
                        !.step = NumNeg(o.step)]
         ELSE o
    ELSE IF o.start.n < o.stop.n
         THEN [o EXCEPT !.start = NumSub(o.stop, NumAbs(o.step)),
                        !.stop = NumSub(o.start, NumAbs(o.step)),
                        !.step = NumNeg(o.step)]
         ELSE o

\* _sort_sweep(sweep, reverse)
SortSweep(sweep, reverse, h) ==
    IF KindOf(sweep, h) = "choice"
    THEN IF Orderable(h[sweep.n].list)
         THEN New(h, [h[sweep.n] EXCEPT !.list = sorted(h[sweep.n].list, reverse)])
         ELSE Result(h, "TypeError", None)
    ELSE IF KindOf(sweep, h) = "range"
    THEN IF h[sweep.n].start = None \/ h[sweep.n].stop = None
         THEN Result(h, "AssertionError", None)
         ELSE New(h, SortRange(h[sweep.n], reverse))
    ELSE Result(h, "AssertionError", None)

\* sort(*args, reverse=reverse) with neither sweep= nor list= given.
SortPositional(args, reverse, h) ==
    IF Len(args) = 1
    THEN LET arg == args[1]
         IN  IF KindOf(arg, h) \in {"choice", "range"} THEN SortSweep(arg, reverse, h)
             ELSE IF KindOf(arg, h) = "list"
             THEN IF Orderable(h[arg.n].list)
                  THEN New(h, ListObj(sorted(h[arg.n].list, reverse)))
                  ELSE Result(h, "TypeError", None)
             ELSE Result(h, "TypeError", None)
    ELSE IF \E i \in 1..Len(args) : ~IsPrimitive(args[i])
    THEN Result(h, "TypeError", None)
    ELSE LET cw == ListToSimpleChoice(args, h)
             r == SortSweep(cw.val, reverse, cw.heap)
         IN  \* cw itself is unreachable once sort returns; only the sorted copy is kept
             IF r.status /= "ok" THEN Result(h, r.status, None)
             ELSE New(h, r.heap[r.val.n])

\* sort(*args, sweep=None, reverse=False, list=None)
sort(args, sweep, reverse, list, h) ==
    IF list /= None THEN SortPositional(<<list>>, reverse, h)
    ELSE IF sweep /= None THEN SortSweep(sweep, reverse, h)
    ELSE SortPositional(args, reverse, h)

(***************************************************************************)
(* Inputs                                                                  *)
(***************************************************************************)
\* Most objects a behaviour may hold at once.
MaxHeap == 2

\* Most objects a behaviour of sort calls alone may hold at once.
MaxSortHeap == 3

\* Scalars passed as arguments: 2 and "7"
ScalarIn == {IntV(2), StrV(<<"7">>)}

\* The last of two positional arguments: 1
SecondIn == IntV(1)

\* Arguments of tag() before the sweep, over "a", "b" and the non-string 2.
FrontIn ==
    {<<>>, <<StrV(<<"b">>), StrV(<<"a">>), StrV(<<"b">>)>>, <<StrV(<<"a">>), IntV(2)>>}

\* start / stop / end of range() and interval(): 0 and 1.5
BoundIn == {IntV(0), FloatH(3)}

\* step of range(): omitted, 0, 0.5
StepIn == {None, IntV(0), FloatH(1)}

\* Objects the caller may hold before the first call: a list, a simple-form
\* choice built by the caller from bare comma-separated values, and range(0, 3).
CoreObjs ==
    {ListObj(<<IntV(3), IntV(1), IntV(2)>>),
     ChoiceSweep(<<IntV(2), FloatH(-3), BoolV(TRUE)>>, TRUE),
     RangeSweep(IntV(0), IntV(3), IntV(1))}

\* More of them, each a value the functions and the caller's own list and
\* mapping syntax produce: a list of strings, a mapping,
\* shuffle(tag("a", choice("2", 1.5))), tag("a", range(1.5, 0, -0.5)) and
\* interval(0, 1.5).
InputObjs ==
    CoreObjs \cup
    {ListObj(<<StrV(<<"7">>), QuotedString(<<"1", ".", "5">>), BoolV(FALSE)>>),
     DictObj(<<"a", "b">>, <<StrV(<<"3">>), StrV(<<"-", "4">>)>>),
     [ChoiceSweep(<<StrV(<<"2">>), FloatH(3)>>, FALSE)
         EXCEPT !.tags = {<<"a">>}, !.shuffle = TRUE],
     [RangeSweep(FloatH(3), IntV(0), FloatH(-1)) EXCEPT !.tags = {<<"a">>}],
     IntervalSweep(IntV(0), FloatH(3))}

\* Ranges handed to sort: start and stop over 0 and 3, step over 1, -1, 2
\* and -2, and the ranges from 1.5 to 0 and back by halves.
SortRanges ==
    {RangeSweep(a, b, c) :
        a \in {IntV(0), IntV(3)}, b \in {IntV(0), IntV(3)},
        c \in {IntV(1), IntV(-1), IntV(2), IntV(-2)}}
    \cup {RangeSweep(FloatH(3), IntV(0), FloatH(-1)),
          RangeSweep(IntV(0), FloatH(3), FloatH(1))}

Refs(h) == {Ref(i) : i \in 1..Len(h)}

Values(h) == ScalarIn \cup Refs(h)

\* Positional argument lists: none, one value, or a value followed by 1.
ArgsIn(h) ==
    {<<>>} \cup {<<v>> : v \in Values(h)} \cup {<<v, SecondIn>> : v \in Values(h)}

\* Positional arguments together with one keyword argument: positionals alone,
\* the keyword alone, and one call that gives both.
WithKw(h) ==
    {[args |-> a, kw |-> None] : a \in ArgsIn(h)}
        \cup {[args |-> <<>>, kw |-> v] : v \in Refs(h) \cup {IntV(2)}}
        \cup {[args |-> <<IntV(2)>>, kw |-> v] : v \in (Refs(h) \cap {Ref(1)}) \cup {IntV(2)}}

NoKw == [value |-> None, sweep |-> None, list |-> None, reverse |-> FALSE]

Perms(n) == {p \in [1..n -> 1..n] : \A i, j \in 1..n : p[i] = p[j] => i = j}

\* sorted() compares two nested lists element by element; such inputs are not drawn.
TwoNestedLists(v, h) ==
    /\ KindOf(v, h) \in {"list", "choice"}
    /\ \E i, j \in 1..Len(h[v.n].list) :
          i /= j /\ KindOf(h[v.n].list[i], h) = "list" /\ KindOf(h[v.n].list[j], h) = "list"

(***************************************************************************)
(* The calls                                                               *)
(***************************************************************************)
NoCall ==
    [op |-> "init", args |-> <<>>, kw |-> NoKw, status |-> "ok", ret |-> None,
     pre |-> <<>>]

\* One call: the heap becomes the heap the call leaves, a raising call leaves
\* it as it was, and the call is recorded with the heap it started from. An
\* exception is not caught by any of the functions: it ends the evaluation of
\* the expression the calls belong to, so no call follows a call that raised.
Do(op, args, kw, r) ==
    /\ call.status = "ok"
    /\ heap' = r.heap
    /\ call' = [op |-> op, args |-> args, kw |-> kw, status |-> r.status,
                ret |-> r.val, pre |-> heap]

CallCast(fn) ==
    \E in \in WithKw(heap) :
        Do(fn, in.args, [NoKw EXCEPT !.value = in.kw], CastCall(fn, in.args, in.kw, heap))

cast_int == CallCast("int")

cast_float == CallCast("float")

cast_str == CallCast("str")

cast_bool == CallCast("bool")

CallChoice ==
    \E args \in ArgsIn(heap) : Do("choice", args, NoKw, choice(args, heap))

CallRange ==
    \E start \in BoundIn, stop \in BoundIn, step \in StepIn :
        Do("range", <<start, stop, step>>, NoKw, New(heap, range(start, stop, step)))

CallInterval ==
    \E start \in BoundIn, end \in BoundIn :
        Do("interval", <<start, end>>, NoKw, New(heap, interval(start, end)))

CallTag ==
    \E front \in FrontIn, last \in {<<>>} \cup {<<v>> : v \in Values(heap)},
       sweep \in {None} \cup Refs(heap) :
        /\ sweep /= None => last = <<>>
        /\ Do("tag", front \o last, [NoKw EXCEPT !.sweep = sweep],
              tag(front \o last, sweep, heap))

\* The list random.shuffle() is given, if the call reaches it.
ShuffleTarget(args, sweep, list, h) ==
    LET a == IF list /= None THEN <<list>> ELSE IF sweep /= None THEN <<sweep>> ELSE args
    IN  IF Len(a) = 1 /\ KindOf(a[1], h) = "list" THEN h[a[1].n].list ELSE <<>>

\* The keyword given to shuffle or sort, if any: sweep= or list=.
KwForms == {"none", "sweep", "list"}

KwArg(form, name, in) == IF form = name THEN in.kw ELSE None

CallShuffle ==
    \E in \in WithKw(heap), form \in KwForms :
        LET sweep == KwArg(form, "sweep", in)
            list == KwArg(form, "list", in)
        IN  /\ (form = "none") = (in.kw = None)
            /\ \E perm \in Perms(Len(ShuffleTarget(in.args, sweep, list, heap))) :
                  Do("shuffle", in.args, [NoKw EXCEPT !.sweep = sweep, !.list = list],
                     shuffle(in.args, sweep, list, heap, perm))

CallSort ==
    \E in \in WithKw(heap), form \in KwForms, reverse \in BOOLEAN :
        LET sweep == KwArg(form, "sweep", in)
            list == KwArg(form, "list", in)
        IN  /\ (form = "none") = (in.kw = None)
            /\ \A v \in Refs(heap) : ~TwoNestedLists(v, heap)
            /\ Do("sort", in.args,
                  [NoKw EXCEPT !.sweep = sweep, !.list = list, !.reverse = reverse],
                  sort(in.args, sweep, reverse, list, heap))

\* The caller holds at most cap objects.
Fits(cap) == Len(heap') <= cap

(***************************************************************************)
(* Specifications                                                          *)
(***************************************************************************)
\* The caller starts with one object.
Init ==
    /\ heap \in {<<o>> : o \in InputObjs}
    /\ call = NoCall

\* The casts alone.
NextCast ==
    \/ cast_int /\ Fits(MaxHeap)
    \/ cast_float /\ Fits(MaxHeap)
    \/ cast_str /\ Fits(MaxHeap)
    \/ cast_bool /\ Fits(MaxHeap)

SpecCast == Init /\ [][NextCast]_vars

NextChoice == CallChoice /\ Fits(MaxHeap)

SpecChoice == Init /\ [][NextChoice]_vars

NextTag == CallTag /\ Fits(MaxHeap)

SpecTag == Init /\ [][NextTag]_vars

NextShuffle == CallShuffle /\ Fits(MaxHeap)

SpecShuffle == Init /\ [][NextShuffle]_vars

\* sort applied again and again, starting from one range.
InitSort ==
    /\ heap \in {<<o>> : o \in SortRanges}
    /\ call = NoCall

NextSort == CallSort /\ Fits(MaxSortHeap)

SpecSort == InitSort /\ [][NextSort]_vars

\* Every function.
Next ==
    \/ NextCast
    \/ NextChoice
    \/ CallRange /\ Fits(MaxHeap)
    \/ CallInterval /\ Fits(MaxHeap)
    \/ NextTag
    \/ NextShuffle
    \/ CallSort /\ Fits(MaxHeap)

\* The caller starts with a list, a simple-form choice or a range.
InitAll ==
    /\ heap \in {<<o>> : o \in CoreObjs}
    /\ call = NoCall

Spec == InitAll /\ [][Next]_vars

(***************************************************************************)
(* Properties                                                              *)
(***************************************************************************)
Returned == call.status = "ok"

CastFns == {"int", "float", "str", "bool"}

IsCast == call.op \in CastFns

\* The value a cast call is given alone: one positional value or value=.
CastTarget ==
    IF call.args = <<>> THEN call.kw.value
    ELSE IF Len(call.args) = 1 /\ call.kw.value = None THEN call.args[1]
    ELSE None

\* The value a shuffle or sort call works on: list=, else sweep=, else the
\* one positional value.
OrderTarget ==
    IF call.kw.list /= None THEN call.kw.list
    ELSE IF call.kw.sweep /= None THEN call.kw.sweep
    ELSE IF Len(call.args) = 1 THEN call.args[1]
    ELSE None

\* The object a reference argument named before the call, and the object returned.
ArgObj(v) == call.pre[v.n]

RetObj == heap[call.ret.n]

IsNew(v) == IsRef(v) /\ v.n > Len(call.pre)

RECURSIVE ExpandFrom(_, _, _)
ExpandFrom(x, stop, step) ==
    IF (step > 0 /\ x < stop) \/ (step < 0 /\ x > stop)
    THEN <<x>> \o ExpandFrom(x + step, stop, step)
    ELSE <<>>

\* The progression start, start+step, ... strictly before stop.
Expand(o) == ExpandFrom(o.start.n, o.stop.n, o.step.n)

RECURSIVE Ordered(_, _)
Ordered(xs, reverse) ==
    IF xs = <<>> THEN <<>>
    ELSE LET m == CHOOSE i \in 1..Len(xs) :
                    \A j \in 1..Len(xs) : IF reverse THEN xs[i] >= xs[j] ELSE xs[i] <= xs[j]
         IN  <<xs[m]>> \o Ordered(SubSeq(xs, 1, m - 1) \o SubSeq(xs, m + 1, Len(xs)), reverse)

IntRange(o) ==
    o.kind = "range" /\ o.start.t = "int" /\ o.stop.t = "int" /\ o.step.t = "int"

SameRange(a, b) == a.start = b.start /\ a.stop = b.stop /\ a.step = b.step

\* The last call sorted a range and returned.
SortedRange ==
    /\ call.op = "sort"
    /\ Returned
    /\ IsRef(OrderTarget)
    /\ ArgObj(OrderTarget).kind = "range"

\* C1: sorting a range of integers with a non-zero step gives a range whose
\* expansion holds the values of the original's expansion, ascending when
\* reverse is false and descending when it is true.
C1_SortKeepsValues ==
    (SortedRange /\ IntRange(ArgObj(OrderTarget)) /\ ArgObj(OrderTarget).step.n /= 0)
        => /\ RetObj.kind = "range"
           /\ Expand(RetObj) = Ordered(Expand(ArgObj(OrderTarget)), call.kw.reverse)

\* C2: after any call, whether it returned or raised, every object that
\* existed before the call has the field values it had before the call.
C2_NoArgumentMutated == \A i \in 1..Len(call.pre) : heap[i] = call.pre[i]

\* C3: a cast that succeeds on a ChoiceSweep returns a ChoiceSweep with the
\* elements cast in order and the simple_form, tags and shuffle of the argument.
C3_CastChoiceKeepsAttributes ==
    (IsCast /\ Returned /\ IsRef(CastTarget) /\ ArgObj(CastTarget).kind = "choice")
        => LET s == ArgObj(CastTarget)
           IN  /\ RetObj.kind = "choice"
               /\ Len(RetObj.list) = Len(s.list)
               /\ \A i \in 1..Len(s.list) :
                     ~IsRef(s.list[i]) => RetObj.list[i] = Cast(call.op, s.list[i], call.pre).val
               /\ RetObj.simple_form = s.simple_form
               /\ RetObj.tags = s.tags
               /\ RetObj.shuffle = s.shuffle

\* choice() promoted its only argument, a simple-form ChoiceSweep.
ChoicePromotes ==
    /\ Len(call.args) = 1
    /\ IsChoiceSweep(call.args[1], call.pre)
    /\ ArgObj(call.args[1]).simple_form

ChoicePromoted ==
    /\ Returned
    /\ call.ret = call.args[1]
    /\ ~RetObj.simple_form
    /\ RetObj.list = ArgObj(call.args[1]).list

ChoiceBuilt ==
    /\ Returned
    /\ IsNew(call.ret)
    /\ RetObj.kind = "choice"
    /\ ~RetObj.simple_form
    /\ RetObj.list = call.args

\* C4 as stated: choice() promotes a lone simple-form ChoiceSweep; otherwise it
\* fails if some argument is a ChoiceSweep that is not simple-form; otherwise,
\* also when one of several arguments is a simple-form ChoiceSweep, it returns
\* a new explicit-form ChoiceSweep of its arguments.
C4_ChoiceOutcomesAsStated ==
    call.op = "choice" =>
        IF ChoicePromotes THEN ChoicePromoted
        ELSE IF \E i \in 1..Len(call.args) :
                    IsChoiceSweep(call.args[i], call.pre) /\ ~ArgObj(call.args[i]).simple_form
        THEN ~Returned
        ELSE ChoiceBuilt

\* C4, amended: choice() promotes a lone simple-form ChoiceSweep; otherwise it
\* fails if any argument is a ChoiceSweep, simple-form or not; otherwise it
\* returns a new explicit-form ChoiceSweep of its arguments.
C4_ChoiceOutcomes ==
    call.op = "choice" =>
        IF ChoicePromotes THEN ChoicePromoted
        ELSE IF \E i \in 1..Len(call.args) : IsChoiceSweep(call.args[i], call.pre)
        THEN ~Returned /\ heap = call.pre
        ELSE ChoiceBuilt

C4_Witness ==
    /\ call.op = "choice"
    /\ Len(call.args) = 2
    /\ IsChoiceSweep(call.args[1], call.pre)
    /\ ArgObj(call.args[1]).simple_form
    /\ call.status = "HydraException"

\* C5: tag(s) with the sweep as its one positional argument fails; tag(sweep=s)
\* with no positional argument returns the sweep with no tags; and
\* tag(t1, ..., tn, s) with n >= 1 strings returns the sweep with tags {t1..tn}.
C5_TagForms ==
    call.op = "tag" =>
        /\ (/\ Len(call.args) = 1
            /\ call.kw.sweep = None
            /\ IsSweep(call.args[1], call.pre)) => ~Returned
        /\ (/\ call.args = <<>>
            /\ call.kw.sweep /= None
            /\ IsSweep(call.kw.sweep, call.pre))
              => Returned /\ call.ret = call.kw.sweep /\ RetObj.tags = {}
        /\ (/\ Len(call.args) >= 2
            /\ call.kw.sweep = None
            /\ IsSweep(call.args[Len(call.args)], call.pre)
            /\ \A i \in 1..(Len(call.args) - 1) : call.args[i].t = "str")
              => /\ Returned
                 /\ call.ret = call.args[Len(call.args)]
                 /\ RetObj.tags = {call.args[i].s : i \in 1..(Len(call.args) - 1)}

\* C6: every RangeSweep the calls have produced has a non-zero step.
C6_StepNonZero ==
    \A i \in 1..Len(heap) : heap[i].kind = "range" => heap[i].step.n /= 0

\* int() and float() of a number, stated on the fixed-point value.
AsInt(v) == [t |-> "int", n |-> 2 * (IF v.n >= 0 THEN v.n \div 2 ELSE 0 - ((0 - v.n) \div 2)), s |-> <<>>]

AsFloat(v) == [t |-> "float", n |-> v.n, s |-> <<>>]

Count(xs, x) == Cardinality({i \in 1..Len(xs) : xs[i] = x})

\* C8: shuffle of a list returns a new list with the same elements, as many
\* times each, and leaves the argument as it was; shuffle of a ChoiceSweep or
\* a RangeSweep returns a new copy that differs from the argument in having
\* shuffle set, and leaves the argument as it was.
C8_ShufflePreserves ==
    (call.op = "shuffle" /\ IsRef(OrderTarget)) =>
        LET o == ArgObj(OrderTarget)
        IN  /\ o.kind = "list"
                  => /\ Returned /\ IsNew(call.ret) /\ RetObj.kind = "list"
                     /\ Len(RetObj.list) = Len(o.list)
                     /\ \A i \in 1..Len(o.list) :
                           Count(RetObj.list, o.list[i]) = Count(o.list, o.list[i])
                     /\ heap[OrderTarget.n] = o
            /\ o.kind \in {"choice", "range"}
                  => /\ Returned /\ IsNew(call.ret)
                     /\ RetObj = [o EXCEPT !.shuffle = TRUE]
                     /\ heap[OrderTarget.n] = o

C8_Witness ==
    /\ call.op = "shuffle"
    /\ IsRef(call.kw.list)
    /\ ArgObj(call.kw.list).kind = "list"
    /\ Returned
    /\ RetObj.list /= ArgObj(call.kw.list).list
    /\ heap[call.kw.list.n].list = ArgObj(call.kw.list).list

\* C9: a cast given positional values and value= fails for the conflict; given
\* neither it fails for the missing argument; given one value it casts it; given
\* several positional values it casts them in order into a simple-form ChoiceSweep.
C9_CastArgumentForms ==
    IsCast =>
        /\ (Len(call.args) >= 1 /\ call.kw.value /= None)
              => call.status = "TypeError: both" /\ heap = call.pre
        /\ (call.args = <<>> /\ call.kw.value = None)
              => call.status = "TypeError: neither" /\ heap = call.pre
        /\ CastTarget /= None
              => LET r == Cast(call.op, CastTarget, call.pre)
                 IN  /\ call.status = r.status
                     /\ Returned => heap = r.heap /\ call.ret = r.val
        /\ (Len(call.args) >= 2 /\ call.kw.value = None)
              => /\ call.status \notin {"TypeError: both", "TypeError: neither"}
                 /\ (\A i \in 1..Len(call.args) : IsPrimitive(call.args[i]))
                       => Returned = (\A i \in 1..Len(call.args) :
                                         CastScalar(call.op, call.args[i]).status = "ok")
                 /\ Returned
                       => /\ IsNew(call.ret)
                          /\ RetObj.kind = "choice"
                          /\ RetObj.simple_form
                          /\ Len(RetObj.list) = Len(call.args)
                          /\ \A i \in 1..Len(call.args) :
                                IsPrimitive(call.args[i])
                                    => RetObj.list[i] = CastScalar(call.op, call.args[i]).val

C9_Witness ==
    /\ call.op = "int"
    /\ call.args = <<StrV(<<"7">>), IntV(1)>>
    /\ Returned
    /\ RetObj.simple_form
    /\ RetObj.list = <<IntV(7), IntV(1)>>

\* The range a sort returned lies in the direction that sort asked for.
SortDirection ==
    SortedRange =>
        IF call.kw.reverse THEN RetObj.start.n >= RetObj.stop.n
        ELSE RetObj.start.n <= RetObj.stop.n

\* Two sort calls in a row, the second on the range the first returned.
SortedAgain == SortedRange /\ SortedRange' /\ OrderTarget' = call.ret

\* Sorting a range of integers against its direction and then back restores
\* its start, stop and step.
RoundTripStep ==
    (/\ SortedAgain
     /\ IntRange(ArgObj(OrderTarget))
     /\ call.kw.reverse /= call.kw.reverse'
     /\ IF call.kw.reverse
        THEN ArgObj(OrderTarget).start.n <= ArgObj(OrderTarget).stop.n
        ELSE ArgObj(OrderTarget).start.n >= ArgObj(OrderTarget).stop.n)
        => SameRange(RetObj', ArgObj(OrderTarget))

\* Repeating the sort just made changes nothing.
RepeatStep ==
    (SortedAgain /\ call.kw.reverse' = call.kw.reverse) => SameRange(RetObj', RetObj)

\* C10: sorting a range of integers against its direction and then back gives
\* its start, stop and step again; every range a sort returns lies in the
\* direction asked for; and the same sort applied to it again leaves its
\* fields as they are.
C10_SortRoundTrip == [][RoundTripStep /\ RepeatStep]_vars /\ []SortDirection

C10_Witness ==
    /\ Len(heap) = 3
    /\ call.op = "sort"
    /\ Returned
    /\ ~call.kw.reverse
    /\ OrderTarget = Ref(2)
    /\ call.ret = Ref(3)
    /\ IntRange(heap[1])
    /\ heap[1].start.n < heap[1].stop.n
    /\ heap[2].kind = "range"
    /\ heap[2].start.n > heap[2].stop.n
    /\ heap[3] /= heap[2]
    /\ SameRange(heap[3], heap[1])

====
